---- MODULE Spec2Model ----
(***************************************************************************)
(* Model of src/scraping.py: get_roll_nums (identifier discovery),         *)
(* get_web_uid (web handle resolution) and get_bca_data (the scrape loop). *)
(*                                                                         *)
(* A Python str is a sequence of one-character strings, so that prefix     *)
(* tests, str.replace and str.strip are computed character by character.   *)
(* An HTML page is the document-order sequence of its elements that carry  *)
(* an id attribute, each with the list of its direct text nodes.           *)
(***************************************************************************)
EXTENDS Integers, Sequences, FiniteSets, TLC

VARIABLES
    pc,         \* position of get_bca_data: "loop", "fetch", "pause", "done", "raised"
    jurs,       \* argument jurs of get_bca_data
    rolls,      \* argument rolls of get_bca_data
    i,          \* loop index of enumerate(prop_iter), zero-based
    uid,        \* local uid of get_bca_data
    ids,        \* local ids of get_bca_data: the filtered ids of the page last parsed
    dict_data,  \* the defaultdict(list) the rows are accumulated in
    result,     \* what the call of get_bca_data delivered: nothing yet, a table, an exception
    trace,      \* the external actions performed so far (requests and sleeps), in order
    fn_in,      \* argument of the function applied in the single-function specifications
    fn_out      \* its result

vars == <<pc, jurs, rolls, i, uid, ids, dict_data, result, trace, fn_in, fn_out>>

----------------------------------------------------------------------------
(* Bounds of the model.                                                    *)

MaxItems == 2

MaxElems == 2

----------------------------------------------------------------------------
(* Python strings.                                                         *)

\* a variant of the prefix test that asks for the whole string to be equal
StartsWith_Equal(s, prefix) == s = prefix

\* str.startswith(prefix)
StartsWith(s, prefix) ==
    /\ Len(prefix) <= Len(s)
    /\ \A k \in 1..Len(prefix) : s[k] = prefix[k]

\* s[k:], k zero-based
Drop(s, k) == SubSeq(s, k + 1, Len(s))

\* str.replace(old, new): left to right, non-overlapping, every occurrence
RECURSIVE Replace(_, _, _)
Replace(s, old, new) ==
    IF s = <<>> THEN <<>>
    ELSE IF StartsWith(s, old) THEN new \o Replace(Drop(s, Len(old)), old, new)
    ELSE <<Head(s)>> \o Replace(Tail(s), old, new)

\* the characters str.strip() removes
Whitespace == {" ", "\t", "\n"}

RECURSIVE LStrip(_)
LStrip(s) ==
    IF s # <<>> /\ Head(s) \in Whitespace THEN LStrip(Tail(s)) ELSE s

RECURSIVE RStrip(_)
RStrip(s) ==
    IF s # <<>> /\ s[Len(s)] \in Whitespace THEN RStrip(SubSeq(s, 1, Len(s) - 1)) ELSE s

\* str.strip()
Strip(s) == RStrip(LStrip(s))

\* numpy.nan, the null marker; no Python str is equal to it
np_nan == <<"nan">>

----------------------------------------------------------------------------
(* HTTP responses.                                                         *)

Statuses == {200, 204, 304, 404, 500}

\* requests.Response.raise_for_status(): raises HTTPError for 4xx and 5xx
RaisesForStatus(status) == 400 <= status /\ status < 600

\* the else branch of both status checks: raise_for_status(), then ValueError
RaiseFor(status) ==
    [kind |-> "raise",
     exc  |-> IF RaisesForStatus(status) THEN "HTTPError" ELSE "ValueError"]

ok_prefix == <<"o", "k", "-">>

\* a variant of get_web_uid that accepts every status below 400
GetWebUid_AnySuccess(status, body) ==
    IF status < 400
    THEN [kind |-> "return", uid |-> Replace(body, ok_prefix, <<>>)]
    ELSE RaiseFor(status)

\* get_web_uid, after the response (status, JSON string body) has arrived
GetWebUid(status, body) ==
    IF status = 200
    THEN [kind |-> "return", uid |-> Replace(body, ok_prefix, <<>>)]
    ELSE RaiseFor(status)

\* a variant of the status check that relies on raise_for_status() alone
FetchOk_NoHttpError(status) == ~RaisesForStatus(status)

\* the status check of the page fetch in get_bca_data
FetchOk(status) == status = 200

----------------------------------------------------------------------------
(* The id filter of get_bca_data.                                          *)

\* ids_regex = "^lbl|^manufacture|^legal|^property-comments": the literal of
\* each alternative; every alternative is anchored at the start by ^ and none
\* is anchored at the end
ids_regex ==
    << <<"l", "b", "l">>,
       <<"m", "a", "n", "u", "f", "a", "c", "t", "u", "r", "e">>,
       <<"l", "e", "g", "a", "l">>,
       <<"p", "r", "o", "p", "e", "r", "t", "y", "-", "c", "o", "m", "m", "e", "n", "t", "s">> >>

\* a variant for a regex whose alternatives lack the ^ anchor
RegexSearch_Unanchored(regex, x) ==
    \E k \in 1..Len(regex), j \in 0..Len(x) : StartsWith(Drop(x, j), regex[k])

\* bool(re.search(regex, x)) for a regex of ^-anchored literals
RegexSearch(regex, x) == \E k \in 1..Len(regex) : StartsWith(x, regex[k])

\* list(filter(lambda x: bool(re.search(ids_regex, x)), ids))
FilterIds(idl) == SelectSeq(idl, LAMBDA x : RegexSearch(ids_regex, x))

\* IDs that do not always show up on the property web page
dynamic_ids ==
    << <<"l", "b", "l", "T", "o", "t", "a", "l", "A", "s", "s", "e", "s", "s", "e", "d", "L", "a", "n", "d">>,
       <<"l", "b", "l", "T", "o", "t", "a", "l", "A", "s", "s", "e", "s", "s", "e", "d", "B", "u", "i", "l", "d", "i", "n", "g">>,
       <<"l", "b", "l", "P", "r", "e", "v", "i", "o", "u", "s", "A", "s", "s", "e", "s", "s", "e", "d", "L", "a", "n", "d">>,
       <<"l", "b", "l", "P", "r", "e", "v", "i", "o", "u", "s", "A", "s", "s", "e", "s", "s", "e", "d", "B", "u", "i", "l", "d", "i", "n", "g">>,
       <<"p", "r", "o", "p", "e", "r", "t", "y", "-", "c", "o", "m", "m", "e", "n", "t", "s">>,
       <<"l", "b", "l", "C", "o", "m", "m", "e", "n", "t", "s">> >>

----------------------------------------------------------------------------
(* XPath selection on a parsed page.                                       *)

\* xpath_select(sel, "//@id"): every id attribute, in document order
XpathIds(sel) == [k \in 1..Len(sel) |-> sel[k].id]

\* xpath_select(sel, "//*[@id='id_name']/text()"): the direct text nodes of
\* every element carrying that id, in document order
RECURSIVE XpathText(_, _)
XpathText(sel, id_name) ==
    IF sel = <<>> THEN <<>>
    ELSE (IF Head(sel).id = id_name THEN Head(sel).text ELSE <<>>)
         \o XpathText(Tail(sel), id_name)

----------------------------------------------------------------------------
(* The accumulator dict_data, a defaultdict(list).                         *)

jur_key == <<"j", "u", "r">>

roll_key == <<"r", "o", "l", "l">>

\* dict_data[k] = v
DictSet(d, k, v) ==
    IF k \in DOMAIN d THEN [d EXCEPT ![k] = v] ELSE d @@ (k :> v)

\* dict_data[k].append(v); a missing key starts as the empty list
DictAppend(d, k, v) ==
    IF k \in DOMAIN d THEN [d EXCEPT ![k] = Append(@, v)] ELSE d @@ (k :> <<v>>)

\* a variant that tests the first text node for emptiness before trimming it
ExtractValue_TestBeforeStrip(value) ==
    IF value = <<>> \/ value[1] = <<>> THEN np_nan ELSE Strip(value[1])

\* the value appended for the text nodes selected for one id
ExtractValue(value) ==
    IF value = <<>> THEN np_nan
    ELSE LET v == Strip(value[1]) IN IF v = <<>> THEN np_nan ELSE v

\* for id_name in ids: ... dict_data[id_name].append(...)
RECURSIVE FieldLoop(_, _, _)
FieldLoop(d, sel, idl) ==
    IF idl = <<>> THEN d
    ELSE FieldLoop(DictAppend(d, Head(idl), ExtractValue(XpathText(sel, Head(idl)))),
                   sel, Tail(idl))

\* id_name not in ids
NotIn(id_name, idl) == \A k \in 1..Len(idl) : idl[k] # id_name

\* a variant of the fill loop that tests the accumulator's keys, not the page's ids
RECURSIVE DynamicLoop_KeyTest(_, _, _)
DynamicLoop_KeyTest(d, idl, dyn) ==
    IF dyn = <<>> THEN d
    ELSE DynamicLoop_KeyTest(IF Head(dyn) \notin DOMAIN d
                             THEN DictAppend(d, Head(dyn), np_nan) ELSE d,
                             idl, Tail(dyn))

\* for id_name in dynamic_ids: if id_name not in ids: append nan
RECURSIVE DynamicLoop(_, _, _)
DynamicLoop(d, idl, dyn) ==
    IF dyn = <<>> THEN d
    ELSE DynamicLoop(IF NotIn(Head(dyn), idl) THEN DictAppend(d, Head(dyn), np_nan) ELSE d,
                     idl, Tail(dyn))

\* sel = scrapy.Selector(text = html); ids = the filtered xpath_select(sel, "//@id")
PageIds(html) == FilterIds(XpathIds(html))

\* the body of the loop of get_bca_data between the id filter and the progress message
ScrapePage(d, jur, roll, html) ==
    LET sel == html
        d1  == DictSet(DictSet(d, jur_key, jur), roll_key, roll)
    IN  DynamicLoop(FieldLoop(d1, sel, PageIds(html)), PageIds(html), dynamic_ids)

\* the keys of dict_data that hold a list
ListKeys(d) == DOMAIN d \ {jur_key, roll_key}

\* pd.DataFrame(dict_data): lists are columns and must all have one length,
\* a scalar is repeated on every row, an empty dict is the empty table
DataFrame(d) ==
    LET lens == {Len(d[k]) : k \in ListKeys(d)} IN
    IF DOMAIN d = {} THEN [kind |-> "table", rows |-> <<>>]
    ELSE IF Cardinality(lens) # 1 THEN [kind |-> "raise", exc |-> "ValueError"]
    ELSE LET n == CHOOSE x \in lens : TRUE IN
         [kind |-> "table",
          rows |-> [r \in 1..n |->
                      [k \in DOMAIN d |-> IF k \in ListKeys(d) THEN d[k][r] ELSE d[k]]]]

----------------------------------------------------------------------------
(* get_bca_data as a state machine: one action per external action of the  *)
(* loop body, and one for the construction of the returned table.          *)

\* the sequences over S of length at most n
BoundedSeq(S, n) == UNION {[1..k -> S] : k \in 0..n}

\* the (jurisdiction code, roll number) pairs the inputs are drawn from
InputPairs == {<<226, <<"0", "1">>>>, <<227, <<"0", "2">>>>}

\* r.json() of a 200 answer of the lookup endpoint: "ok-" and the handle the
\* site keeps for that roll number
LookupBody(jur, roll) == ok_prefix \o <<"H">> \o roll

\* elements with an id attribute that a property page may contain
PageElems ==
    { [id |-> dynamic_ids[6], text |-> << <<" ", "a", " ">> >>],
      [id |-> dynamic_ids[5], text |-> <<>>],
      [id |-> <<"l", "b", "l", "A", "d", "d", "r", "e", "s", "s">>, text |-> << <<"b">> >>],
      [id |-> <<"h", "e", "a", "d", "e", "r">>, text |-> << <<"h">> >>] }

Pages == BoundedSeq(PageElems, MaxElems)

\* sleep(3)
SleepSecs == 3

\* a variant of the iteration that stays on the same item
NextIndex_Same(k) == k

\* for i, (jur, roll) in enumerate(prop_iter): the index of the next item
NextIndex(k) == k + 1

Init ==
    /\ \E ps \in BoundedSeq(InputPairs, MaxItems) :
          /\ jurs = [k \in 1..Len(ps) |-> ps[k][1]]
          /\ rolls = [k \in 1..Len(ps) |-> ps[k][2]]
    /\ pc = "loop"
    /\ i = 0
    /\ uid = <<>>
    /\ ids = <<>>
    /\ dict_data = <<>>
    /\ result = [kind |-> "none"]
    /\ trace = <<>>
    /\ fn_in = <<>>
    /\ fn_out = <<>>

\* uid = get_web_uid(jur, roll): one lookup request; a raise leaves get_bca_data
Lookup ==
    /\ pc = "loop"
    /\ i < Len(jurs)
    /\ \E status \in Statuses :
          LET r == GetWebUid(status, LookupBody(jurs[i + 1], rolls[i + 1])) IN
          /\ trace' = Append(trace, [act |-> "lookup", item |-> i, jur |-> jurs[i + 1],
                                     roll |-> rolls[i + 1], status |-> status, ret |-> r])
          /\ IF r.kind = "return"
             THEN /\ uid' = r.uid
                  /\ pc' = "fetch"
                  /\ result' = result
             ELSE /\ uid' = uid
                  /\ pc' = "raised"
                  /\ result' = r
    /\ UNCHANGED <<jurs, rolls, i, ids, dict_data, fn_in, fn_out>>

\* r = requests.get(base_url + uid), the status check, and on 200 the
\* extraction of the page's fields into dict_data
Fetch ==
    /\ pc = "fetch"
    /\ \E status \in Statuses :
          /\ trace' = Append(trace, [act |-> "fetch", item |-> i, handle |-> uid,
                                     status |-> status])
          /\ IF FetchOk(status)
             THEN /\ \E html \in Pages :
                       /\ ids' = PageIds(html)
                       /\ dict_data' = ScrapePage(dict_data, jurs[i + 1], rolls[i + 1], html)
                  /\ pc' = "pause"
                  /\ result' = result
             ELSE /\ UNCHANGED <<ids, dict_data>>
                  /\ pc' = "raised"
                  /\ result' = RaiseFor(status)
    /\ UNCHANGED <<jurs, rolls, i, uid, fn_in, fn_out>>

\* the progress message and sleep(3), then the next iteration
Pause ==
    /\ pc = "pause"
    /\ trace' = Append(trace, [act |-> "sleep", item |-> i, secs |-> SleepSecs])
    /\ i' = NextIndex(i)
    /\ pc' = "loop"
    /\ UNCHANGED <<jurs, rolls, uid, ids, dict_data, result, fn_in, fn_out>>

\* df = pd.DataFrame(dict_data); return df
Return ==
    /\ pc = "loop"
    /\ i >= Len(jurs)
    /\ result' = DataFrame(dict_data)
    /\ pc' = IF result'.kind = "table" THEN "done" ELSE "raised"
    /\ UNCHANGED <<jurs, rolls, i, uid, ids, dict_data, trace, fn_in, fn_out>>

Next == Lookup \/ Fetch \/ Pause \/ Return

Spec == Init /\ [][Next]_vars

----------------------------------------------------------------------------
(* Properties of get_bca_data, checked under Spec.                         *)

\* the number of pairs whose page has been scraped into dict_data
Processed == IF pc = "pause" THEN i + 1 ELSE i

\* the last external action performed
LastEvent == trace[Len(trace)]

\* the set of the elements of a list
Range(seq) == {seq[k] : k \in 1..Len(seq)}

\* C1: when every lookup and every fetch returned 200 and the table is
\* returned, row r of the table carries jurs[r] and rolls[r], for every r.
C1_RowsCarryInputPairs ==
    (pc = "done" /\ result.kind = "table") =>
        \A r \in 1..Len(jurs) :
            /\ r <= Len(result.rows)
            /\ result.rows[r][jur_key] = jurs[r]
            /\ result.rows[r][roll_key] = rolls[r]

\* C2: after k pairs every field column holds exactly k entries, whatever
\* ids the pages held, and the call returns a table of exactly n rows.
C2_OneEntryPerPair ==
    /\ pc \in {"loop", "fetch", "pause", "done"} =>
          \A k \in ListKeys(dict_data) : Len(dict_data[k]) = Processed
    /\ (pc \in {"done", "raised"} /\ Processed = Len(jurs)
          /\ (trace = <<>> \/ LastEvent.act = "sleep")) =>
          (result.kind = "table" /\ Len(result.rows) = Len(jurs))

\* C3: once a page has been processed, each of the six dynamic ids is a key
\* of dict_data, and each dynamic id absent from the ids of the page last
\* processed has the null marker as the value recorded for that page.
C3_DynamicKeysPresent ==
    Processed > 0 =>
        \A k \in 1..Len(dynamic_ids) :
            /\ dynamic_ids[k] \in DOMAIN dict_data
            /\ dynamic_ids[k] \notin Range(ids) =>
                  dict_data[dynamic_ids[k]][Len(dict_data[dynamic_ids[k]])] = np_nan

\* C3 witness: a page that rendered one dynamic id and not another
C3_Witness ==
    /\ pc = "pause"
    /\ i = 1
    /\ dynamic_ids[6] \in Range(ids)
    /\ dynamic_ids[1] \notin Range(ids)
    /\ dict_data[dynamic_ids[6]][Len(dict_data[dynamic_ids[6]])] # np_nan

\* C4: a lookup answered with any status other than 200 makes get_web_uid
\* raise and is the last external action of the run: no fetch for that item,
\* nothing for a later item, and the call delivers an exception, not a table.
C4_LookupFailureAborts ==
    \A p \in 1..Len(trace) :
        (trace[p].act = "lookup" /\ trace[p].status # 200) =>
            /\ trace[p].ret.kind = "raise"
            /\ p = Len(trace)
            /\ pc = "raised"
            /\ result.kind = "raise"
            /\ Cardinality({q \in 1..Len(trace) : trace[q].act = "fetch"}) = trace[p].item

\* C4 witness: the lookup of the second item answered 204, which is no HTTP error
C4_Witness ==
    /\ pc = "raised"
    /\ Len(trace) = 4
    /\ LastEvent.act = "lookup"
    /\ LastEvent.item = 1
    /\ LastEvent.status = 204

\* C9: the external actions are, item by item in input order, one lookup,
\* one fetch addressed by the handle that lookup returned, one pause of the
\* fixed length; a failed request is the last action, so nothing is retried
\* and no pause follows a failure.
C9_SequentialTrace ==
    /\ Len(trace) <= 3 * Len(jurs)
    /\ \A p \in 1..Len(trace) :
          LET e == trace[p] IN
          /\ e.item = (p - 1) \div 3
          /\ e.act = <<"lookup", "fetch", "sleep">>[((p - 1) % 3) + 1]
          /\ e.act = "lookup" =>
                (e.jur = jurs[e.item + 1] /\ e.roll = rolls[e.item + 1])
          /\ e.act = "fetch" =>
                trace[p - 1].ret = [kind |-> "return", uid |-> e.handle]
          /\ e.act = "sleep" =>
                (e.secs = 3 /\ trace[p - 1].status = 200 /\ trace[p - 2].status = 200)
          /\ (e.act # "sleep" /\ e.status # 200) => p = Len(trace)

\* C9 witness: two items scraped to the end
C9_Witness ==
    /\ pc = "done"
    /\ Len(trace) = 6
    /\ trace[2].handle # trace[5].handle

\* C10: a step in which the page fetch is answered with any status other
\* than 200 raises, leaves dict_data as it was, and is the last step of the
\* run: no pause, no later request, no table.
C10_FetchFailureAborts ==
    [][ /\ pc # "raised"
        /\ (pc = "fetch" /\ trace'[Len(trace')].status # 200) =>
              /\ pc' = "raised"
              /\ result'.kind = "raise"
              /\ dict_data' = dict_data
              /\ Len(trace') = Len(trace) + 1
              /\ trace'[Len(trace')].act = "fetch" ]_vars

\* C10 witness: the fetch of the second item answered 204
C10_Witness ==
    /\ pc = "raised"
    /\ Len(trace) = 5
    /\ LastEvent.act = "fetch"
    /\ LastEvent.status = 204
    /\ result = [kind |-> "raise", exc |-> "ValueError"]

----------------------------------------------------------------------------
(* Single-function specifications: the argument is drawn in the initial    *)
(* state and the one action applies the function to it.                    *)

\* the state of get_bca_data before any call, held fixed by these specifications
ScrapeIdle ==
    /\ jurs = <<>>
    /\ rolls = <<>>
    /\ i = 0
    /\ uid = <<>>
    /\ ids = <<>>
    /\ dict_data = <<>>
    /\ result = [kind |-> "none"]
    /\ trace = <<>>

ScrapeUnchanged == UNCHANGED <<jurs, rolls, i, uid, ids, dict_data, result, trace>>

(* get_web_uid *)

MaxHandleLen == 3

HandleChars == {"o", "k", "-", "A"}

InitUid ==
    /\ ScrapeIdle
    /\ pc = "call"
    /\ \E status \in Statuses, h \in BoundedSeq(HandleChars, MaxHandleLen) :
          fn_in = [status |-> status, body |-> ok_prefix \o h]
    /\ fn_out = <<>>

CallGetWebUid ==
    /\ pc = "call"
    /\ fn_out' = GetWebUid(fn_in.status, fn_in.body)
    /\ pc' = "returned"
    /\ UNCHANGED fn_in
    /\ ScrapeUnchanged

SpecUid == InitUid /\ [][CallGetWebUid]_vars

\* C5: on a 200 answer whose body is "ok-" followed by h, get_web_uid returns
\* exactly h, the body without its first three characters.
C5_PrefixStripped ==
    (pc = "returned" /\ fn_in.status = 200) =>
        fn_out = [kind |-> "return", uid |-> SubSeq(fn_in.body, 4, Len(fn_in.body))]

(* the id filter *)

MaxSuffixLen == 1

SuffixChars == {"-", "s", "l"}

\* ids around the four alternatives: each prefix of each literal, behind nothing
\* or one leading character, followed by a short suffix; and case variants
LiteralPrefixes ==
    UNION { { SubSeq(ids_regex[a], 1, k) : k \in 0..Len(ids_regex[a]) } :
            a \in 1..Len(ids_regex) }

CandidateIds ==
    { lead \o stem \o suf :
        lead \in {<<>>, <<"x">>},
        stem \in LiteralPrefixes,
        suf \in BoundedSeq(SuffixChars, MaxSuffixLen) }
    \cup { <<"L", "b", "l">>, <<"L", "B", "L", "x">>, <<"L", "e", "g", "a", "l">> }

InitFilter ==
    /\ ScrapeIdle
    /\ pc = "call"
    /\ fn_in \in CandidateIds
    /\ fn_out = <<>>

CallFilterIds ==
    /\ pc = "call"
    /\ fn_out' = FilterIds(<<fn_in>>)
    /\ pc' = "returned"
    /\ UNCHANGED fn_in
    /\ ScrapeUnchanged

SpecFilter == InitFilter /\ [][CallFilterIds]_vars

\* x begins with the characters of lit
BeginsWith(x, lit) == Len(x) >= Len(lit) /\ SubSeq(x, 1, Len(lit)) = lit

Lit_lbl == <<"l", "b", "l">>

Lit_manufacture == <<"m", "a", "n", "u", "f", "a", "c", "t", "u", "r", "e">>

Lit_legal == <<"l", "e", "g", "a", "l">>

Lit_property_comments ==
    <<"p", "r", "o", "p", "e", "r", "t", "y", "-", "c", "o", "m", "m", "e", "n", "t", "s">>

\* C6 as stated: an id is selected iff it starts with "lbl", "manufacture" or
\* "legal", or is exactly "property-comments".
C6_ExactPropertyComments ==
    pc = "returned" =>
        (fn_out = <<fn_in>>) <=>
            \/ BeginsWith(fn_in, Lit_lbl)
            \/ BeginsWith(fn_in, Lit_manufacture)
            \/ BeginsWith(fn_in, Lit_legal)
            \/ fn_in = Lit_property_comments

\* C6 as amended: an id is selected iff it starts with "lbl", "manufacture",
\* "legal" or "property-comments"; an id not selected is dropped.
C6_PrefixPropertyComments ==
    pc = "returned" =>
        /\ fn_out \in {<<>>, <<fn_in>>}
        /\ (fn_out = <<fn_in>>) <=>
              \/ BeginsWith(fn_in, Lit_lbl)
              \/ BeginsWith(fn_in, Lit_manufacture)
              \/ BeginsWith(fn_in, Lit_legal)
              \/ BeginsWith(fn_in, Lit_property_comments)

\* C6 witness: a longer id that begins with "property-comments" is selected
C6_Witness ==
    /\ pc = "returned"
    /\ fn_in = Lit_property_comments \o <<"-">>
    /\ fn_out = <<fn_in>>

(* the value recorded for a selected id *)

MaxTextLen == 3

TextChars == {" ", "\t", "a"}

\* the text nodes selected for an id: none, one, or one followed by another
TextNodeLists ==
    {<<>>}
    \cup { <<t>> : t \in BoundedSeq(TextChars, MaxTextLen) }
    \cup { <<t, u>> : t \in BoundedSeq(TextChars, MaxTextLen), u \in {<<>>, <<"b">>} }

InitValue ==
    /\ ScrapeIdle
    /\ pc = "call"
    /\ fn_in \in TextNodeLists
    /\ fn_out = <<>>

CallExtractValue ==
    /\ pc = "call"
    /\ fn_out' = ExtractValue(fn_in)
    /\ pc' = "returned"
    /\ UNCHANGED fn_in
    /\ ScrapeUnchanged

SpecValue == InitValue /\ [][CallExtractValue]_vars

\* C7: the recorded value is the null marker when there is no text node, when
\* the first text node is empty, and when it is all whitespace; otherwise it
\* is the first text node without its leading and trailing whitespace, and
\* is not the empty string.
C7_NullOrTrimmed ==
    pc = "returned" =>
        IF fn_in = <<>> \/ \A k \in 1..Len(fn_in[1]) : fn_in[1][k] \in {" ", "\t"}
        THEN fn_out = np_nan
        ELSE /\ fn_out # <<>>
             /\ fn_out # np_nan
             /\ \E lo \in 1..Len(fn_in[1]), hi \in 1..Len(fn_in[1]) :
                   /\ lo <= hi
                   /\ fn_out = SubSeq(fn_in[1], lo, hi)
                   /\ fn_in[1][lo] \notin {" ", "\t"}
                   /\ fn_in[1][hi] \notin {" ", "\t"}
                   /\ \A k \in 1..Len(fn_in[1]) :
                         (k < lo \/ k > hi) => fn_in[1][k] \in {" ", "\t"}

\* C7 witness: a padded first text node is recorded trimmed
C7_Witness ==
    /\ pc = "returned"
    /\ fn_in = << <<" ", "a", "\t">>, <<"b">> >>
    /\ fn_out = <<"a">>

----------------------------------------------------------------------------
(* get_roll_nums.  The table the feature service returns is a sequence of  *)
(* rows; only the columns the function reads or keeps are modelled (the    *)
(* other dropped columns are never read).  A float is a record: NaN, or a  *)
(* number given in tenths.                                                 *)

Digits == <<"0", "1", "2", "3", "4", "5", "6", "7", "8", "9">>

\* f"{jur}" for a non-negative integer
RECURSIVE IntToStr(_)
IntToStr(n) ==
    IF n < 10 THEN <<Digits[n + 1]>> ELSE IntToStr(n \div 10) \o <<Digits[(n % 10) + 1]>>

NaN == [isnan |-> TRUE, tenths |-> 0]

Float(t) == [isnan |-> FALSE, tenths |-> t]

\* pd.NA of the nullable integer type
NA == [isna |-> TRUE, val |-> 0]

\* whether astype("Int32") accepts a float: NaN or a whole number
Castable(x) == x.isnan \/ x.tenths % 10 = 0

\* astype("Int32") of a float it accepts
ToInt32(x) == IF x.isnan THEN NA ELSE [isna |-> FALSE, val |-> x.tenths \div 10]

\* get_roll_nums(jur), after layer.query().df has arrived as df
GetRollNums(jur, df) ==
    LET kept == SelectSeq(df, LAMBDA row : StartsWith(row.AFP_OID, IntToStr(jur))) IN
    IF \E k \in 1..Len(kept) : ~Castable(kept[k].IMPR_VALUE) \/ ~Castable(kept[k].LAND_VALUE)
    THEN [kind |-> "raise", exc |-> "TypeError"]
    ELSE [kind |-> "table",
          rows |-> [k \in 1..Len(kept) |->
                      [index      |-> k - 1,
                       JUR        |-> jur,
                       ROLL_NUM   |-> kept[k].ROLL_NUM,
                       IMPR_VALUE |-> ToInt32(kept[k].IMPR_VALUE),
                       LAND_VALUE |-> ToInt32(kept[k].LAND_VALUE)]]]

MaxRows == 2

\* def get_roll_nums(jur = 226)
DefaultJur == 226

JurArgs == {DefaultJur, 22}

FeatureIds ==
    { <<"2", "2", "6", "0", "0", "0", "1">>,
      <<"2", "2", "7", "0", "0", "0", "1">>,
      <<"2", "2">>,
      <<"1", "2", "2", "6">> }

\* (IMPR_VALUE, LAND_VALUE) of a feature
FeatureValues ==
    { <<Float(1000), NaN>>, <<NaN, Float(2000)>>, <<Float(1005), Float(2000)>> }

FeatureRows ==
    { [AFP_OID |-> o, ROLL_NUM |-> r, IMPR_VALUE |-> v[1], LAND_VALUE |-> v[2]] :
        o \in FeatureIds, r \in {<<"0", "1">>, <<"0", "2">>}, v \in FeatureValues }

InitRoll ==
    /\ ScrapeIdle
    /\ pc = "call"
    /\ \E jur \in JurArgs, df \in BoundedSeq(FeatureRows, MaxRows) :
          fn_in = [jur |-> jur, df |-> df]
    /\ fn_out = <<>>

CallGetRollNums ==
    /\ pc = "call"
    /\ fn_out' = GetRollNums(fn_in.jur, fn_in.df)
    /\ pc' = "returned"
    /\ UNCHANGED fn_in
    /\ ScrapeUnchanged

SpecRoll == InitRoll /\ [][CallGetRollNums]_vars

\* the string form of the jurisdiction codes used
JurString == (226 :> <<"2", "2", "6">>) @@ (22 :> <<"2", "2">>)

\* C8: in the table get_roll_nums returns, the rows are exactly the rows of
\* the service's table whose AFP_OID starts with the string form of jur, in
\* their relative order, each with JUR = jur, under the index 0, 1, 2, ...
C8_PrefixFilter ==
    (pc = "returned" /\ fn_out.kind = "table") =>
        \E f \in [1..Len(fn_out.rows) -> 1..Len(fn_in.df)] :
            /\ \A q \in 1..Len(fn_out.rows) :
                  /\ q > 1 => f[q - 1] < f[q]
                  /\ fn_out.rows[q].ROLL_NUM = fn_in.df[f[q]].ROLL_NUM
                  /\ fn_out.rows[q].JUR = fn_in.jur
                  /\ fn_out.rows[q].index = q - 1
            /\ \A p \in 1..Len(fn_in.df) :
                  (\E q \in 1..Len(fn_out.rows) : f[q] = p) <=>
                      BeginsWith(fn_in.df[p].AFP_OID, JurString[fn_in.jur])

\* C8 witness: jurisdiction 226 rejects "2270001" and retains "2260001"
C8_Witness ==
    /\ pc = "returned"
    /\ fn_in.jur = 226
    /\ Len(fn_in.df) = 2
    /\ fn_in.df[1].AFP_OID = <<"2", "2", "7", "0", "0", "0", "1">>
    /\ fn_in.df[2].AFP_OID = <<"2", "2", "6", "0", "0", "0", "1">>
    /\ fn_out.kind = "table"
    /\ Len(fn_out.rows) = 1
    /\ fn_out.rows[1].index = 0
    /\ fn_out.rows[1].JUR = 226

====
